---- MODULE Spec2Model ----
(***************************************************************************)
(* Model of src/mr.py: the GitLab webhook receiver (gitlab_webhook), the   *)
(* two background tasks it starts (process_mr_in_background and            *)
(* process_note_in_background) and the outbound calls they make.           *)
(*                                                                         *)
(* Text is modelled character by character: a Python str is a sequence of  *)
(* characters, each character written as a short TLA+ string.  Characters  *)
(* outside ASCII carry a romanised name: "KO" "DEU" "RI" "BYU" are the     *)
(* Hangul syllables of the simple triggers, "ROBOT" is the robot emoji of  *)
(* the signature, "IDOT" is U+0130 (capital I with dot above), "DOT" is    *)
(* U+0307 (combining dot above), "NL" is a line feed and "~" stands for a  *)
(* run of template text in which no trigger and no marker occurs.          *)
(***************************************************************************)
EXTENDS Integers, Sequences, FiniteSets, TLC

\* ------------------------------------------------------------ bounds
MaxDeliveries == 2
MaxEchoes == 2
MaxWords == 3

\* ------------------------------------------------------------ values
None == "None"
Absent == "Absent"

\* dict.get(key): an absent key reads as None.
Get(v) == IF v = Absent THEN None ELSE v

\* dict.get(key, default)
GetD(v, d) == IF v = Absent THEN d ELSE v

\* ------------------------------------------------------------ text
BOT_SIGNATURE == <<"ROBOT", " ", "A", "I", " ", "KO", "DEU", " ", "RI", "BYU">>

command_triggers ==
    << <<"@", "b", "o", "t">>,
       <<"/", "r", "e", "v", "i", "e", "w">>,
       <<"/", "a", "n", "a", "l", "y", "z", "e">> >>

simple_triggers ==
    << <<"KO", "DEU", "RI", "BYU">>,
       <<"KO", "DEU", " ", "RI", "BYU">>,
       <<"RI", "BYU">> >>

\* str.lower() of one character.  U+0130 lowers to two characters.
LowerChar(c) ==
    CASE c = "A" -> <<"a">>
      [] c = "I" -> <<"i">>
      [] c = "R" -> <<"r">>
      [] c = "B" -> <<"b">>
      [] c = "IDOT" -> <<"i", "DOT">>
      [] OTHER -> <<c>>

RECURSIVE Lower(_)
Lower(s) == IF s = <<>> THEN <<>> ELSE LowerChar(Head(s)) \o Lower(Tail(s))

\* needle occurs in hay at 0-based offset i
OccursAt(hay, needle, i) ==
    /\ i + Len(needle) <= Len(hay)
    /\ SubSeq(hay, i + 1, i + Len(needle)) = needle

\* Python: needle in hay
Contains(hay, needle) == \E i \in 0..Len(hay) : OccursAt(hay, needle, i)

\* Python: hay.find(needle)
Find(hay, needle) ==
    IF Contains(hay, needle)
    THEN CHOOSE i \in 0..Len(hay) :
            /\ OccursAt(hay, needle, i)
            /\ \A j \in 0..Len(hay) : OccursAt(hay, needle, j) => i <= j
    ELSE -1

\* Python: s[k:] for k >= 0
SliceFrom(s, k) == IF k >= Len(s) THEN <<>> ELSE SubSeq(s, k + 1, Len(s))

IsSpace(c) == c \in {" ", "NL"}

RECURSIVE LStrip(_)
LStrip(s) == IF s # <<>> /\ IsSpace(Head(s)) THEN LStrip(Tail(s)) ELSE s

RECURSIVE RStrip(_)
RStrip(s) ==
    IF s # <<>> /\ IsSpace(s[Len(s)]) THEN RStrip(SubSeq(s, 1, Len(s) - 1)) ELSE s

\* Python: s.strip()
Strip(s) == RStrip(LStrip(s))

\* An optional text: user_prompt is None or a str.
NoText == [has |-> FALSE, text |-> <<>>]
SomeText(s) == [has |-> TRUE, text |-> s]

\* ------------------------------------------------------------ command extraction
\* line 419 as note_body.startswith(BOT_SIGNATURE)
IsBotComment_prefix(note_body) == OccursAt(note_body, BOT_SIGNATURE, 0)

\* line 419: BOT_SIGNATURE in note_body
IsBotComment(note_body) == Contains(note_body, BOT_SIGNATURE)

\* lines 425-435: the first trigger of command_triggers found in the lowered
\* body; the prompt is cut from the body itself at the index found in the
\* lowered body.
ExplicitPrompt(note_body) ==
    LET low == Lower(note_body)
        hits == {k \in 1..Len(command_triggers) : Contains(low, command_triggers[k])}
    IN  IF hits = {} THEN NoText
        ELSE LET k == CHOOSE h \in hits : \A j \in hits : h <= j
                 trigger == command_triggers[k]
                 trigger_index == Find(low, trigger)
             IN  SomeText(Strip(SliceFrom(note_body, trigger_index + Len(trigger))))

\* lines 438-445: any simple trigger makes the whole trimmed body the prompt
SimplePrompt(note_body) ==
    IF \E k \in 1..Len(simple_triggers) : Contains(Lower(note_body), simple_triggers[k])
    THEN SomeText(Strip(note_body))
    ELSE NoText

\* lines 424-445
ExtractPrompt(note_body) ==
    LET explicit == ExplicitPrompt(note_body)
    IN  IF explicit.has THEN explicit ELSE SimplePrompt(note_body)

\* ------------------------------------------------------------ comment texts
\* lines 335-342: the full-review comment
MRComment_unsigned(analysis_result) ==
    <<"NL", "#", "#", " ">> \o <<"NL", "NL">> \o analysis_result
        \o <<"NL", "NL", "-", "-", "-", "NL", "*", "~", " ", "RI", "BYU", "~", "*", "NL">>

MRComment(analysis_result) ==
    <<"NL", "#", "#", " ">> \o BOT_SIGNATURE \o <<"NL", "NL">> \o analysis_result
        \o <<"NL", "NL", "-", "-", "-", "NL", "*", "~", " ", "RI", "BYU", "~", "*", "NL">>

\* lines 483-490: the comment answering a user's request
NoteComment(analysis_result, author_username) ==
    <<"NL", "#", "#", " ">> \o BOT_SIGNATURE \o <<" ", "-", " ", "~", "NL", "NL">>
        \o analysis_result
        \o <<"NL", "NL", "-", "-", "-", "NL", "*", "~", " ", "RI", "BYU", "~", " ", "@">>
        \o author_username \o <<"~", "*", "NL">>

\* line 456: the text posted when the diff could not be fetched
FallbackText == <<"~", " ", "KO", "DEU", " ", "RI", "BYU", "~">>

\* lines 172, 248: the text returned when generation raises
GenerationError == <<"KO", "DEU", " ", "~">>

\* response.text of the generation service: any text, here one that itself
\* holds an explicit trigger
GeneratedTexts == { <<"@", "b", "o", "t", " ", "x">> }

\* ------------------------------------------------------------ payloads
\* A webhook body.  shape tells what request.json gives: "unparseable" (it
\* raises), "null" or "list" (valid JSON that is no object) or "object".  Each
\* key of an object is present with a value or Absent; a sub-object is a record
\* whose field present tells whether the key is there.
AbsentText == [present |-> FALSE, text |-> <<>>]
Text(s) == [present |-> TRUE, text |-> s]

NoAttrs ==
    [present |-> FALSE, action |-> Absent, target_project_id |-> Absent, iid |-> Absent,
     title |-> Absent, description |-> Absent, note |-> AbsentText,
     noteable_type |-> Absent, noteable_id |-> Absent, noteable_iid |-> Absent]

MRAttrs(action, project_id, iid) ==
    [NoAttrs EXCEPT !.present = TRUE, !.action = action,
                    !.target_project_id = project_id, !.iid = iid, !.title = "T"]

NoteAttrs(note, noteable_type, noteable_id, noteable_iid) ==
    [NoAttrs EXCEPT !.present = TRUE, !.note = note, !.noteable_type = noteable_type,
                    !.noteable_id = noteable_id, !.noteable_iid = noteable_iid]

NoMR == [present |-> FALSE, iid |-> Absent]
NoProject == [present |-> FALSE, id |-> Absent]
NoUser == [present |-> FALSE, username |-> AbsentText]

Payload(shape, object_kind, attrs, merge_request, project, user) ==
    [shape |-> shape, object_kind |-> object_kind, object_attributes |-> attrs,
     merge_request |-> merge_request, project |-> project, user |-> user]

NonObject(shape) == Payload(shape, Absent, NoAttrs, NoMR, NoProject, NoUser)

MRPayload(attrs) == Payload("object", "merge_request", attrs, NoMR, NoProject, NoUser)

NotePayload(attrs, merge_request, project, user) ==
    Payload("object", "note", attrs, merge_request, project, user)

Project1 == [present |-> TRUE, id |-> "P1"]
UserU == [present |-> TRUE, username |-> Text(<<"u">>)]

\* the words note bodies are made of
Words ==
    { <<"@", "B", "o", "t">>,
      <<"/", "R", "e", "v", "i", "e", "w">>,
      <<"/", "a", "n", "a", "l", "y", "z", "e">>,
      <<"KO", "DEU">>,
      <<"RI", "BYU">>,
      <<" ">>,
      <<"x">>,
      <<"IDOT">>,
      BOT_SIGNATURE }

RECURSIVE BodiesOf(_)
BodiesOf(n) ==
    IF n = 0 THEN { <<>> }
    ELSE LET shorter == BodiesOf(n - 1)
         IN  shorter \cup { b \o w : b \in shorter, w \in Words }

\* every text of at most MaxWords words
Bodies == BodiesOf(MaxWords)

\* the deliveries of the system specification
ReviewX == <<"/", "r", "e", "v", "i", "e", "w", " ", "x">>

SysRequests ==
    { NonObject("unparseable"), NonObject("null"), NonObject("list"),
      Payload("object", "push", NoAttrs, NoMR, NoProject, NoUser),
      Payload("object", Absent, NoAttrs, NoMR, NoProject, NoUser),
      MRPayload(NoAttrs) }
    \cup { MRPayload(MRAttrs(a, "P1", "I1")) : a \in {"open", "update", "close", Absent} }
    \cup { NotePayload(NoteAttrs(Text(b), "MergeRequest", "N10", "I1"), NoMR, Project1, UserU) :
             b \in {ReviewX, <<"x">>} }
    \cup { NotePayload(NoteAttrs(Text(<<"x">>), "MergeRequest", "N10", Absent),
                       NoMR, Project1, UserU),
           NotePayload(NoteAttrs(Text(ReviewX), "Commit", "N10", "I1"), NoMR, Project1, UserU) }

\* the deliveries of the note specification: every body on a well-formed note,
\* and every combination of present and absent fields on a few bodies
NoteRequests ==
    { NotePayload(NoteAttrs(Text(b), "MergeRequest", "N10", "I1"), NoMR, Project1, UserU) :
        b \in Bodies }
    \cup { NotePayload(NoteAttrs(n, ty, nid, niid), mr, pr, us) :
             n \in {AbsentText, Text(ReviewX), Text(BOT_SIGNATURE \o ReviewX)},
             ty \in {"MergeRequest", "Commit", Absent},
             nid \in {"N10", Absent},
             niid \in {"I1", Absent},
             mr \in {NoMR, [present |-> TRUE, iid |-> Absent], [present |-> TRUE, iid |-> "I2"]},
             pr \in {NoProject, Project1},
             us \in {NoUser, UserU} }

\* ------------------------------------------------------------ outbound calls
\* what the diff endpoint can do
FetchOutcomes == {"timeout", "exception", "non200", "ok_empty", "ok"}

\* lines 48-62: the parsed body on 200, None otherwise.  "ok_empty" is a 200
\* whose parsed body is empty ({} or []).
get_mr_changes_any200(outcome) ==
    IF outcome \in {"ok", "non200"} THEN "data"
    ELSE IF outcome = "ok_empty" THEN "empty" ELSE None

get_mr_changes(outcome) ==
    IF outcome = "ok" THEN "data"
    ELSE IF outcome = "ok_empty" THEN "empty" ELSE None

\* lines 321, 454: not changes_data
Falsy(changes_data) == changes_data \in {None, "empty"}

\* what the list endpoint can answer: status and, on 200, the entries
ListBodies ==
    { <<>>,
      << [id |-> "N10", iid |-> "I3"] >>,
      << [id |-> "N11", iid |-> "I4"], [id |-> "N10", iid |-> "I3"] >>,
      << [id |-> "N10", iid |-> "I3"], [id |-> "N10", iid |-> "I4"] >>,
      << [id |-> "N10", iid |-> None] >> }

ListOutcomes ==
    { [status |-> "exception", mrs |-> <<>>], [status |-> "non200", mrs |-> <<>>] }
    \cup { [status |-> "ok", mrs |-> l] : l \in ListBodies }

NoListCall == [status |-> "unset", mrs |-> <<>>]

\* lines 392-397: the iid of the first entry whose id is noteable_id
RECURSIVE FirstMatch(_, _)
FirstMatch(mrs, noteable_id) ==
    IF mrs = <<>> THEN None
    ELSE IF Head(mrs).id = noteable_id THEN Head(mrs).iid
    ELSE FirstMatch(Tail(mrs), noteable_id)

\* lines 385-399
ResolveFromList(outcome, noteable_id) ==
    IF outcome.status = "ok" THEN FirstMatch(outcome.mrs, noteable_id) ELSE None

\* lines 377-381: the note's noteable_iid, else the nested merge_request's iid
ResolveFromPayload_nestedFirst(data) ==
    LET nested == IF data.merge_request.present THEN Get(data.merge_request.iid) ELSE None
    IN  IF nested # None THEN nested ELSE Get(data.object_attributes.noteable_iid)

ResolveFromPayload(data) ==
    LET direct == Get(data.object_attributes.noteable_iid)
    IN  IF direct # None THEN direct
        ELSE IF data.merge_request.present THEN Get(data.merge_request.iid)
        ELSE None

\* lines 375, 406: noteable_type == "MergeRequest"
IsMergeRequest_any(noteable_type) == TRUE

IsMergeRequest(noteable_type) == noteable_type = "MergeRequest"

\* line 305: action in ["open", "update"]
ActionHandled_any(action) == TRUE

ActionHandled(action) == action \in {"open", "update"}

\* lines 461-474: the metadata endpoint's answer, or the placeholders
MetadataOutcomes == {"ok", "non200", "exception"}

FetchedInfo(outcome) ==
    IF outcome = "ok" THEN [title |-> "T", description |-> "D"]
    ELSE [title |-> "NoTitle", description |-> "NoDescription"]

\* lines 326-329: title and description of the payload, "" when absent
PayloadInfo(mr_attrs) ==
    [title |-> GetD(mr_attrs.title, ""), description |-> GetD(mr_attrs.description, "")]

NoInfo == [title |-> None, description |-> None]

\* lines 165-172, 241-248: the generated text, or the error text
GenerateOutcomes == {[ok |-> TRUE, text |-> g] : g \in GeneratedTexts}
                    \cup {[ok |-> FALSE, text |-> <<>>]}

analyze_with_gemini(outcome) == IF outcome.ok THEN outcome.text ELSE GenerationError

\* lines 271-293: what the notes endpoint can do; the comment exists on the
\* platform only when it answered 200 or 201
PostOutcomes == {"created", "rejected", "timeout"}

post_comment_to_mr(comment, outcome) == [body |-> comment, stored |-> outcome = "created"]

\* ------------------------------------------------------------ state
VARIABLES
    deliveries,   \* the webhook requests handled so far, each with its response
    tasks,        \* the background threads started so far, each with its locals
    echoed        \* the posted comments the platform has delivered back

vars == <<deliveries, tasks, echoed>>

\* a thread as threading.Thread(target=..., args=(data,)).start() leaves it:
\* its argument, its position and its locals.  calls and posts log the outbound
\* calls it made; origin, sig_checked, list_outcome, fetch and generated record
\* who sent the delivery, whether line 419 was reached and what the list,
\* diff and generation calls answered.
NewTask(kind, origin, data) ==
    [kind |-> kind, origin |-> origin, data |-> data, pc |-> "start",
     project_id |-> None, mr_iid |-> None, noteable_type |-> None, noteable_id |-> None,
     note_body |-> <<>>, author_username |-> <<>>, sig_checked |-> FALSE,
     user_prompt |-> NoText, list_outcome |-> NoListCall, fetch |-> "unset",
     changes_data |-> "unset", mr_info |-> NoInfo, analysis_result |-> <<>>,
     generated |-> "unset", calls |-> <<>>, posts |-> <<>>]

Init ==
    /\ deliveries = <<>>
    /\ tasks = <<>>
    /\ echoed = {}

\* ------------------------------------------------------------ gitlab_webhook
\* lines 531-592: the response and the thread to start.  request.json raising
\* is answered 400; data.get on a value that is no dict raises outside the try
\* block and the framework answers 500.
WebhookResponse(request) ==
    IF request.shape = "unparseable"
    THEN [code |-> 400, status |-> "error", spawn |-> "none"]
    ELSE IF request.shape # "object"
    THEN [code |-> 500, status |-> "uncaught", spawn |-> "none"]
    ELSE LET object_kind == GetD(request.object_kind, "unknown")
         IN  IF object_kind = "merge_request"
             THEN [code |-> 202, status |-> "accepted", spawn |-> "mr"]
             ELSE IF object_kind = "note"
             THEN [code |-> 202, status |-> "accepted", spawn |-> "note"]
             ELSE [code |-> 200, status |-> "ignored", spawn |-> "none"]

\* lines 521-592: one POST to /webhook/gitlab
Handle(request, origin) ==
    LET r == WebhookResponse(request)
    IN  /\ tasks' = IF r.spawn = "none" THEN tasks
                    ELSE Append(tasks, NewTask(r.spawn, origin, request))
        /\ deliveries' = Append(deliveries,
               [request |-> request, origin |-> origin, code |-> r.code,
                status |-> r.status,
                task |-> IF r.spawn = "none" THEN 0 ELSE Len(tasks) + 1])

UserDeliveries == {d \in 1..Len(deliveries) : deliveries[d].origin = "user"}

\* a delivery of the system specification
gitlab_webhook ==
    /\ Cardinality(UserDeliveries) < MaxDeliveries
    /\ \E request \in SysRequests : Handle(request, "user")
    /\ UNCHANGED echoed

\* the single user delivery of the echo specification
gitlab_webhook_first ==
    /\ deliveries = <<>>
    /\ \E request \in SysRequests : Handle(request, "user")
    /\ UNCHANGED echoed

\* the single delivery of the note specification
gitlab_webhook_note ==
    /\ deliveries = <<>>
    /\ \E request \in NoteRequests : Handle(request, "user")
    /\ UNCHANGED echoed

\* The platform sends a note event for every comment created on a merge
\* request, the bot's own included: the comment's body on its merge request.
EchoRequest(task, post) ==
    NotePayload(NoteAttrs(Text(post.body), "MergeRequest", "N10", task.mr_iid),
                NoMR, [present |-> TRUE, id |-> task.project_id],
                [present |-> TRUE, username |-> Text(<<"b", "o", "t">>)])

Echo ==
    /\ Cardinality(echoed) < MaxEchoes
    /\ \E t \in 1..Len(tasks) : \E j \in 1..Len(tasks[t].posts) :
          /\ tasks[t].posts[j].stored
          /\ <<t, j>> \notin echoed
          /\ echoed' = echoed \cup {<<t, j>>}
          /\ Handle(EchoRequest(tasks[t], tasks[t].posts[j]), "echo")

\* ------------------------------------------------------------ background tasks
SetTask(t, task) ==
    /\ tasks' = [tasks EXCEPT ![t] = task]
    /\ UNCHANGED <<deliveries, echoed>>

\* lines 303-314
process_mr_start(t) ==
    LET T == tasks[t]
        mr_attrs == T.data.object_attributes
        action == Get(mr_attrs.action)
    IN  /\ T.kind = "mr" /\ T.pc = "start"
        /\ SetTask(t, IF ~ActionHandled(action)
                      THEN [T EXCEPT !.pc = "done"]
                      ELSE [T EXCEPT !.pc = "get_changes",
                                     !.project_id = Get(mr_attrs.target_project_id),
                                     !.mr_iid = Get(mr_attrs.iid)])

\* lines 405-448: abort, signature check and command extraction
NoteDecide(T) ==
    IF ~IsMergeRequest(T.noteable_type) \/ T.mr_iid = None
    THEN [T EXCEPT !.pc = "done"]
    ELSE LET T1 == [T EXCEPT !.author_username = T.data.user.username.text,
                             !.sig_checked = TRUE]
         IN  IF IsBotComment(T.note_body)
             THEN [T1 EXCEPT !.pc = "done"]
             ELSE LET user_prompt == ExtractPrompt(T.note_body)
                  IN  IF user_prompt.has
                      THEN [T1 EXCEPT !.user_prompt = user_prompt, !.pc = "get_changes"]
                      ELSE [T1 EXCEPT !.pc = "done"]

\* lines 360-384, and lines 401-448 when the payload gives the iid
process_note_start(t) ==
    LET T == tasks[t]
        note == T.data.object_attributes
        T1 == [T EXCEPT !.note_body = note.note.text,
                        !.project_id = Get(T.data.project.id),
                        !.noteable_type = Get(note.noteable_type),
                        !.noteable_id = Get(note.noteable_id)]
    IN  /\ T.kind = "note" /\ T.pc = "start"
        /\ SetTask(t, IF IsMergeRequest(T1.noteable_type)
                      THEN LET mr_iid == ResolveFromPayload(T.data)
                           IN  IF mr_iid = None
                               THEN [T1 EXCEPT !.pc = "list_mrs"]
                               ELSE NoteDecide([T1 EXCEPT !.mr_iid = mr_iid])
                      ELSE NoteDecide(T1))

\* lines 385-399, then lines 401-448
process_note_list(t) ==
    LET T == tasks[t]
    IN  /\ T.kind = "note" /\ T.pc = "list_mrs"
        /\ \E outcome \in ListOutcomes :
              SetTask(t, NoteDecide([T EXCEPT !.calls = Append(@, "list"),
                                              !.list_outcome = outcome,
                                              !.mr_iid = ResolveFromList(outcome, T.noteable_id)]))

\* lines 316-329 and 451-458: the diff fetch and what follows a failed one
fetch_changes(t) ==
    LET T == tasks[t]
    IN  /\ T.pc = "get_changes"
        /\ \E outcome \in FetchOutcomes :
              LET changes_data == get_mr_changes(outcome)
                  T1 == [T EXCEPT !.calls = Append(@, "changes"), !.fetch = outcome,
                                  !.changes_data = changes_data]
              IN  SetTask(t, IF T.kind = "mr"
                             THEN IF Falsy(changes_data)
                                  THEN [T1 EXCEPT !.pc = "done"]
                                  ELSE [T1 EXCEPT !.pc = "generate",
                                                  !.mr_info = PayloadInfo(T.data.object_attributes)]
                             ELSE IF Falsy(changes_data)
                                  THEN [T1 EXCEPT !.pc = "post_fallback"]
                                  ELSE [T1 EXCEPT !.pc = "metadata"])

\* lines 456-458
post_fallback(t) ==
    LET T == tasks[t]
    IN  /\ T.pc = "post_fallback"
        /\ \E outcome \in PostOutcomes :
              /\ outcome = "created" => T.project_id # None /\ T.mr_iid # None
              /\ SetTask(t, [T EXCEPT !.calls = Append(@, "post"),
                                      !.posts = Append(@, post_comment_to_mr(FallbackText, outcome)),
                                      !.pc = "done"])

\* lines 460-474
fetch_metadata(t) ==
    LET T == tasks[t]
    IN  /\ T.pc = "metadata"
        /\ \E outcome \in MetadataOutcomes :
              SetTask(t, [T EXCEPT !.calls = Append(@, "metadata"),
                                   !.mr_info = FetchedInfo(outcome),
                                   !.pc = "generate"])

\* lines 332 and 476-480; mr_info is not read after the prompt is built
generate(t) ==
    LET T == tasks[t]
    IN  /\ T.pc = "generate"
        /\ \E outcome \in GenerateOutcomes :
              SetTask(t, [T EXCEPT !.calls = Append(@, "generate"),
                                   !.analysis_result = analyze_with_gemini(outcome),
                                   !.generated = IF outcome.ok THEN "text" ELSE "failed",
                                   !.mr_info = NoInfo,
                                   !.pc = "post"])

\* lines 334-353 and 482-504
post_review(t) ==
    LET T == tasks[t]
        comment == IF T.kind = "mr" THEN MRComment(T.analysis_result)
                   ELSE NoteComment(T.analysis_result, T.author_username)
    IN  /\ T.pc = "post"
        /\ \E outcome \in PostOutcomes :
              /\ outcome = "created" => T.project_id # None /\ T.mr_iid # None
              /\ SetTask(t, [T EXCEPT !.calls = Append(@, "post"),
                                      !.posts = Append(@, post_comment_to_mr(comment, outcome)),
                                      !.pc = "done"])

\* ------------------------------------------------------------ specifications
Next ==
    \/ gitlab_webhook
    \/ \E t \in 1..Len(tasks) : process_mr_start(t)
    \/ \E t \in 1..Len(tasks) : process_note_start(t)
    \/ \E t \in 1..Len(tasks) : process_note_list(t)
    \/ \E t \in 1..Len(tasks) : fetch_changes(t)
    \/ \E t \in 1..Len(tasks) : post_fallback(t)
    \/ \E t \in 1..Len(tasks) : fetch_metadata(t)
    \/ \E t \in 1..Len(tasks) : generate(t)
    \/ \E t \in 1..Len(tasks) : post_review(t)

Spec == Init /\ [][Next]_vars

NextNote ==
    \/ gitlab_webhook_note
    \/ \E t \in 1..Len(tasks) : process_note_start(t)
    \/ \E t \in 1..Len(tasks) : process_note_list(t)
    \/ \E t \in 1..Len(tasks) : fetch_changes(t)
    \/ \E t \in 1..Len(tasks) : post_fallback(t)
    \/ \E t \in 1..Len(tasks) : fetch_metadata(t)
    \/ \E t \in 1..Len(tasks) : generate(t)
    \/ \E t \in 1..Len(tasks) : post_review(t)

SpecNote == Init /\ [][NextNote]_vars

\* one user delivery, and the platform delivering the bot's comments back
NextEcho ==
    \/ gitlab_webhook_first
    \/ Echo
    \/ \E t \in 1..Len(tasks) : process_mr_start(t)
    \/ \E t \in 1..Len(tasks) : process_note_start(t)
    \/ \E t \in 1..Len(tasks) : process_note_list(t)
    \/ \E t \in 1..Len(tasks) : fetch_changes(t)
    \/ \E t \in 1..Len(tasks) : post_fallback(t)
    \/ \E t \in 1..Len(tasks) : fetch_metadata(t)
    \/ \E t \in 1..Len(tasks) : generate(t)
    \/ \E t \in 1..Len(tasks) : post_review(t)

SpecEcho == Init /\ [][NextEcho]_vars

\* ------------------------------------------------------------ properties
TaskIds == 1..Len(tasks)

Made(T, call) == \E i \in 1..Len(T.calls) : T.calls[i] = call

Count(T, call) == Cardinality({i \in 1..Len(T.calls) : T.calls[i] = call})

\* the calls to post_comment_to_mr made by the tasks of S
PostsOf(S) == UNION { {<<t, j>> : j \in 1..Len(tasks[t].posts)} : t \in S }

\* the note text and the fields of the payload a task was started with
BodyOf(T) == T.data.object_attributes.note.text

TypeOf(T) == Get(T.data.object_attributes.noteable_type)

ActionOf(request) == Get(request.object_attributes.action)

IsMRDelivery(request) == request.shape = "object" /\ request.object_kind = "merge_request"

\* C1: every comment the bot posts, on the review path and on the note path,
\* the comment posted when the diff could not be fetched included, contains
\* BOT_SIGNATURE.
C1_EveryPostSigned ==
    \A t \in TaskIds : \A j \in 1..Len(tasks[t].posts) :
        Contains(tasks[t].posts[j].body, BOT_SIGNATURE)

\* C2: a note whose body contains the signature marker yields no instruction,
\* whatever triggers it also contains: its task never fetches the diff, never
\* calls the generation service and never posts.
C2_SignedNoteYieldsNothing ==
    \A t \in TaskIds :
        LET T == tasks[t]
        IN  (T.kind = "note" /\ Contains(BodyOf(T), BOT_SIGNATURE)) =>
                /\ ~T.user_prompt.has
                /\ ~Made(T, "changes") /\ ~Made(T, "metadata")
                /\ ~Made(T, "generate") /\ ~Made(T, "post")
                /\ T.posts = <<>>
                /\ T.pc \in {"start", "list_mrs", "done"}

\* a signed note that also holds an explicit trigger passed the signature
\* check and ended
C2_Witness ==
    \E t \in TaskIds :
        LET T == tasks[t]
        IN  /\ T.kind = "note" /\ T.pc = "done" /\ T.sig_checked
            /\ Contains(BodyOf(T), BOT_SIGNATURE)
            /\ SubSeq(BodyOf(T), 1, 1) # SubSeq(BOT_SIGNATURE, 1, 1)
            /\ ExplicitPrompt(BodyOf(T)).has

\* C3: no delivery of one of the bot's own comments leads to a diff fetch or
\* to a posted comment, so one user delivery causes at most one bot comment.
C3_NoEchoReprocessed ==
    /\ \A t \in TaskIds :
          tasks[t].origin = "echo" =>
              ~Made(tasks[t], "changes") /\ ~Made(tasks[t], "post")
    /\ Cardinality(PostsOf(TaskIds)) <= Cardinality(UserDeliveries)

\* C4: a merge_request delivery is answered 202 when its thread is started,
\* and a task for action open or update whose diff fetch succeeded posts
\* exactly once, a body with the signature marker, whether generation gave a
\* text or failed and whether the post was accepted or not; k such tasks give
\* exactly k posts.
ReviewedOk(T) ==
    /\ T.kind = "mr"
    /\ ActionOf(T.data) \in {"open", "update"}
    /\ T.fetch = "ok"

C4_OnePostPerReview ==
    /\ \A d \in 1..Len(deliveries) :
          IsMRDelivery(deliveries[d].request) =>
              /\ deliveries[d].code = 202
              /\ deliveries[d].task \in TaskIds
              /\ tasks[deliveries[d].task].data = deliveries[d].request
    /\ \A t \in TaskIds :
          LET T == tasks[t]
          IN  ReviewedOk(T) =>
                  /\ Count(T, "post") = Len(T.posts)
                  /\ Len(T.posts) <= 1
                  /\ T.pc = "done" => Len(T.posts) = 1
                  /\ \A j \in 1..Len(T.posts) : Contains(T.posts[j].body, BOT_SIGNATURE)
    /\ LET R == {t \in TaskIds : ReviewedOk(tasks[t]) /\ tasks[t].pc = "done"}
       IN  Cardinality(PostsOf(R)) = Cardinality(R)

\* two reviews ran to their end side by side, one after a failed generation
\* and one whose post was refused, while the first was answered before it ran
C4_Witness ==
    /\ Len(tasks) = 2
    /\ ReviewedOk(tasks[1]) /\ ReviewedOk(tasks[2])
    /\ tasks[1].pc = "done" /\ tasks[2].pc = "done"
    /\ tasks[1].generated = "failed" /\ tasks[2].generated = "text"
    /\ ~tasks[1].posts[1].stored
    /\ tasks[2].posts[1].stored
    /\ deliveries[1].code = 202 /\ deliveries[2].code = 202

\* C5 as stated: a merge_request delivery whose action is neither open nor
\* update starts no background task and is answered 200 / "ignored".
C5_OtherActionIgnored ==
    \A d \in 1..Len(deliveries) :
        (IsMRDelivery(deliveries[d].request)
            /\ ActionOf(deliveries[d].request) \notin {"open", "update"}) =>
                /\ deliveries[d].code = 200
                /\ deliveries[d].status = "ignored"
                /\ deliveries[d].task = 0

\* C5 amended: such a delivery is answered 202 / "accepted" and does start a
\* background task, which ends without any outbound call and posts nothing.
C5_OtherActionNoCalls ==
    \A d \in 1..Len(deliveries) :
        (IsMRDelivery(deliveries[d].request)
            /\ ActionOf(deliveries[d].request) \notin {"open", "update"}) =>
                /\ deliveries[d].code = 202
                /\ deliveries[d].status = "accepted"
                /\ deliveries[d].task \in TaskIds
                /\ LET T == tasks[deliveries[d].task]
                   IN  /\ T.calls = <<>>
                       /\ T.posts = <<>>
                       /\ T.pc \in {"start", "done"}

\* the task of a close delivery has ended
C5_Witness ==
    \E d \in 1..Len(deliveries) :
        /\ IsMRDelivery(deliveries[d].request)
        /\ ActionOf(deliveries[d].request) = "close"
        /\ deliveries[d].task \in TaskIds
        /\ tasks[deliveries[d].task].pc = "done"

\* C6: after a diff fetch that failed by timeout, exception or non-200 status
\* the review task calls neither the generation service nor post_comment_to_mr,
\* and the note task posts exactly once, the fallback text, and calls neither
\* the metadata endpoint nor the generation service.
FetchFailed(T) == T.fetch \in {"timeout", "exception", "non200"}

C6_FailedFetch ==
    \A t \in TaskIds :
        LET T == tasks[t]
        IN  FetchFailed(T) =>
                /\ ~Made(T, "generate") /\ ~Made(T, "metadata")
                /\ Count(T, "changes") = 1
                /\ T.kind = "mr" => ~Made(T, "post") /\ T.posts = <<>> /\ T.pc = "done"
                /\ T.kind = "note" =>
                      /\ T.user_prompt.has
                      /\ T.pc \in {"post_fallback", "done"}
                      /\ Count(T, "post") = Len(T.posts)
                      /\ Len(T.posts) = IF T.pc = "done" THEN 1 ELSE 0
                      /\ \A j \in 1..Len(T.posts) : T.posts[j].body = FallbackText

\* a review task ended after a timeout, and a note task posted its fallback
\* after a non-200 answer
C6_Witness ==
    \E t, u \in TaskIds :
        /\ tasks[t].kind = "mr" /\ tasks[t].fetch = "timeout" /\ tasks[t].pc = "done"
        /\ tasks[u].kind = "note" /\ tasks[u].fetch = "non200" /\ tasks[u].pc = "done"
        /\ Len(tasks[u].posts) = 1

\* The text following the first case-insensitive occurrence of a trigger in a
\* body: the occurrence is a stretch of the body itself that lowers to the
\* trigger.
MatchesAt(body, trigger, i, n) ==
    /\ i + n <= Len(body)
    /\ Lower(SubSeq(body, i + 1, i + n)) = trigger

HasTrigger(body, trigger) ==
    \E i \in 0..Len(body), n \in 1..Len(trigger) : MatchesAt(body, trigger, i, n)

TextAfterFirst(body, trigger) ==
    LET starts == {i \in 0..Len(body) :
                      \E n \in 1..Len(trigger) : MatchesAt(body, trigger, i, n)}
        first == CHOOSE i \in starts : \A j \in starts : i <= j
        n == CHOOSE m \in 1..Len(trigger) : MatchesAt(body, trigger, first, m)
    IN  SliceFrom(body, first + n)

\* C7: for a note body without the signature marker the instruction is the
\* trimmed text following the first occurrence of the highest-priority
\* explicit trigger present ("@bot", "/review", "/analyze", matched without
\* regard to case), a simple phrase in the body or not; it is the whole
\* trimmed body when no explicit trigger is present and a simple phrase is;
\* with neither there is no instruction and no fetch, generation or post.
C7_ExplicitBeforeSimple ==
    \A t \in TaskIds :
        LET T == tasks[t]
            body == BodyOf(T)
            present == {k \in 1..Len(command_triggers) : HasTrigger(body, command_triggers[k])}
            simple == \E k \in 1..Len(simple_triggers) : Contains(body, simple_triggers[k])
        IN  (T.kind = "note" /\ T.sig_checked /\ ~Contains(body, BOT_SIGNATURE)) =>
                IF present # {}
                THEN LET k == CHOOSE h \in present : \A j \in present : h <= j
                     IN  T.user_prompt
                            = SomeText(Strip(TextAfterFirst(body, command_triggers[k])))
                ELSE IF simple
                THEN T.user_prompt = SomeText(Strip(body))
                ELSE /\ ~T.user_prompt.has
                     /\ ~Made(T, "changes") /\ ~Made(T, "generate") /\ ~Made(T, "post")
                     /\ T.posts = <<>> /\ T.pc = "done"

\* C8: a note whose noteable_type is not "MergeRequest" is dropped before any
\* outbound call, whatever its body and its other fields.
C8_OtherNoteableNoCalls ==
    \A t \in TaskIds :
        LET T == tasks[t]
        IN  (T.kind = "note" /\ TypeOf(T) # "MergeRequest") =>
                /\ T.calls = <<>>
                /\ T.posts = <<>>
                /\ T.pc \in {"start", "done"}

\* a note on a commit that holds a trigger and both iid fields has ended
C8_Witness ==
    \E t \in TaskIds :
        LET T == tasks[t]
        IN  /\ T.kind = "note" /\ TypeOf(T) = "Commit" /\ T.pc = "done"
            /\ BodyOf(T) = ReviewX
            /\ T.data.object_attributes.noteable_iid = "I1"
            /\ T.data.merge_request.iid = "I2"

\* C9: every POST is answered 400 (unparseable), 202 (merge_request or note)
\* or 200 (ignored), a body that is valid JSON but no object included, and no
\* error leaves the handler uncaught.
C9_NoUncaughtError ==
    \A d \in 1..Len(deliveries) :
        LET D == deliveries[d]
        IN  /\ D.code \in {400, 202, 200}
            /\ D.status # "uncaught"
            /\ D.request.shape = "unparseable" => D.code = 400
            /\ D.request.shape \in {"null", "list"} => D.code \in {202, 200}

\* C10: on a MergeRequest note mr_iid is the note's noteable_iid if it has
\* one, else the iid of the nested merge_request, else the iid of the listed
\* merge request whose id is noteable_id; the list endpoint is called only
\* when the first two gave nothing, and a task left without an iid ends before
\* the signature check, without a diff fetch and without a post.
ListedIid(T) ==
    LET mrs == T.list_outcome.mrs
        hits == {j \in 1..Len(mrs) : mrs[j].id = T.noteable_id}
    IN  IF T.list_outcome.status = "ok" /\ hits # {}
        THEN mrs[CHOOSE j \in hits : \A h \in hits : j <= h].iid
        ELSE None

C10_IidResolutionOrder ==
    \A t \in TaskIds :
        LET T == tasks[t]
            direct == Get(T.data.object_attributes.noteable_iid)
            nested == IF T.data.merge_request.present
                      THEN Get(T.data.merge_request.iid) ELSE None
        IN  (T.kind = "note" /\ TypeOf(T) = "MergeRequest") =>
                /\ Made(T, "list") => direct = None /\ nested = None
                /\ Count(T, "list") <= 1
                /\ T.pc \notin {"start", "list_mrs"} =>
                      /\ (direct = None /\ nested = None) => Made(T, "list")
                      /\ T.mr_iid = IF direct # None THEN direct
                                    ELSE IF nested # None THEN nested
                                    ELSE ListedIid(T)
                      /\ T.mr_iid = None =>
                            /\ T.pc = "done"
                            /\ ~T.sig_checked
                            /\ ~T.user_prompt.has
                            /\ ~Made(T, "changes") /\ ~Made(T, "post")
                            /\ T.posts = <<>>

\* a note with neither iid was resolved through the list, past an entry with
\* another id, and went on to fetch the diff
C10_Witness ==
    \E t \in TaskIds :
        LET T == tasks[t]
        IN  /\ T.kind = "note" /\ TypeOf(T) = "MergeRequest"
            /\ Made(T, "list") /\ Len(T.list_outcome.mrs) = 2
            /\ T.list_outcome.mrs[1].id # T.noteable_id
            /\ T.mr_iid = "I3"
            /\ Made(T, "changes")

====
